---- MODULE Spec2Model ----
(***************************************************************************)
(* A model of the Wadler-style pretty printer of pretty.rs: the document  *)
(* algebra and its builder (src/src/lib.rs) and the best-layout renderer   *)
(* with its fit probe (src/src/pretty/doc.rs).                             *)
(*                                                                         *)
(* Documents are records tagged with the variant name.  Text payloads and  *)
(* the sink's output are sequences of one-character strings, one element   *)
(* per byte.  Vec stacks are sequences whose top is the last element.      *)
(***************************************************************************)
EXTENDS Integers, Sequences, FiniteSets, TLC

(***************************************************************************)
(* Bounds of the model.                                                    *)
(***************************************************************************)
\* widths 0..MaxWidth are tried for every document of the generic family
MaxWidth == 4
\* the generic family has the texts "a", "aa", ... up to this length
MaxTextLen == 2
\* at most this many documents are interspersed or concatenated
MaxDocs == 3
\* the answers of a writer to at most this many calls of a step are chosen; it
\* accepts everything after them
MaxAnswers == 3

(***************************************************************************)
(* doc.rs: enum Mode, enum Doc, type Cmd.                                  *)
(***************************************************************************)
Break == "Break"
Flat == "Flat"

Nil == [tag |-> "Nil"]
AppendDoc(ldoc, rdoc) == [tag |-> "Append", l |-> ldoc, r |-> rdoc]
Group(d) == [tag |-> "Group", d |-> d]
Nest(off, d) == [tag |-> "Nest", k |-> off, d |-> d]
Block(off, d) == [tag |-> "Block", k |-> off, d |-> d]
Space == [tag |-> "Space"]
Newline == [tag |-> "Newline"]
Text(s) == [tag |-> "Text", s |-> s]
Union(x, y) == [tag |-> "Union", x |-> x, y |-> y]
\* lib.rs builds this variant; the Doc of doc.rs does not have it and best
\* has no arm for it
Annotated(ann, d) == [tag |-> "Annotated", ann |-> ann, d |-> d]

Cmd(ind, mode, d) == [ind |-> ind, mode |-> mode, doc |-> d]

LF == "\n"
SP == " "

\* Vec::last / Vec::pop / Vec::truncate on a sequence
Top(stack) == stack[Len(stack)]
Pop(stack) == SubSeq(stack, 1, Len(stack) - 1)
TruncateKeepsAll(stack, n) == stack
Truncate(stack, n) == IF Len(stack) > n THEN SubSeq(stack, 1, n) ELSE stack

Min(a, b) == IF a < b THEN a ELSE b

\* the sequences over S of length at most n
SeqsUpTo(S, n) == UNION {[1..k -> S] : k \in 0..n}

(***************************************************************************)
(* doc.rs: the sink (trait Render, IoWrite, FmtWrite) and the text         *)
(* utilities write_spaces / write_newline.                                 *)
(*                                                                         *)
(* A sink value w is an adapter over a writer.  io tells the adapter:      *)
(* TRUE is IoWrite over an io::Write, FALSE is FmtWrite over a fmt::Write. *)
(* out is what the writer accepted so far.  wlog is the results of the     *)
(* calls made on the writer (the accepted count; -1 for an error, -2 for   *)
(* an error of kind Interrupted) and req the number of bytes each of those *)
(* calls was asked to write.  rlog is the calls made on the adapter: which *)
(* method (all: write_str_all), the bytes it was given (req) and what it   *)
(* returned (res: the count of write_str, the length written by            *)
(* write_str_all; -1 and -2 for the writer's errors, -3 for WriteZero).    *)
(* rs is what the writer will answer to the next calls: -1 and -2 the      *)
(* errors, n >= 0 accepts at most n bytes; when rs is exhausted the writer *)
(* accepts everything.  err and n are the outcome of the last call.        *)
(***************************************************************************)
SPACES_LEN == 100

Sink(o, lg, rq, rl, rs, io) ==
    [out |-> o, wlog |-> lg, req |-> rq, rlog |-> rl, rs |-> rs, io |-> io,
     err |-> FALSE, n |-> 0]

\* one call of the writer: `all` is fmt::Write::write_str, which takes the
\* whole text or fails, otherwise io::Write::write, which may be short
SinkWrite(w, s, all) ==
    LET r == IF w.rs = <<>> THEN Len(s) ELSE Head(w.rs)
        rest == IF w.rs = <<>> THEN <<>> ELSE Tail(w.rs)
    IN  IF r < 0
        THEN [w EXCEPT !.rs = rest, !.err = TRUE, !.n = 0,
                       !.wlog = Append(@, r), !.req = Append(@, Len(s))]
        ELSE LET k == IF all \/ r > Len(s) THEN Len(s) ELSE r
             IN  [w EXCEPT !.rs = rest, !.err = FALSE, !.n = k,
                           !.out = @ \o SubSeq(s, 1, k),
                           !.wlog = Append(@, k), !.req = Append(@, Len(s))]

\* io::Write::write_all: write until nothing is left, going on after an
\* Interrupted error, failing with WriteZero when the writer accepts nothing
RECURSIVE write_all(_, _)
write_all(w, buf) ==
    IF buf = <<>> THEN [w EXCEPT !.err = FALSE]
    ELSE LET w2 == SinkWrite(w, buf, FALSE)
         IN  IF w2.err
             THEN IF Top(w2.wlog) = -2 THEN write_all(w2, buf) ELSE w2
             ELSE IF w2.n = 0 THEN [w2 EXCEPT !.err = TRUE]
             ELSE write_all(w2, SubSeq(buf, w2.n + 1, Len(buf)))

\* the adapter returns from a call that was given s and left the sink as w
Returned(w, s, all) ==
    LET res == IF ~w.err THEN (IF all THEN Len(s) ELSE w.n)
               ELSE IF Top(w.wlog) < 0 THEN Top(w.wlog) ELSE -3
    IN  [w EXCEPT !.rlog = Append(@, [all |-> all, req |-> Len(s), res |-> res])]

write_str(w, s) ==
    IF w.io THEN Returned(SinkWrite(w, s, FALSE), s, FALSE)
    ELSE Returned(SinkWrite(w, s, TRUE), s, FALSE)
write_str_all(w, s) ==
    IF w.io THEN Returned(write_all(w, s), s, TRUE)
    ELSE Returned(SinkWrite(w, s, TRUE), s, TRUE)

\* &SPACES[..insert]
Spaces(n) == [i \in 1..n |-> SP]

RECURSIVE write_spaces_loop(_, _, _)
RECURSIVE write_spaces_loop_whole_buffer(_, _, _)
write_spaces_loop_whole_buffer(inserted, spaces, w) ==
    IF inserted < spaces
    THEN LET insert == SPACES_LEN
             w2 == write_str(w, Spaces(insert))
         IN  IF w2.err THEN w2
             ELSE write_spaces_loop_whole_buffer(inserted + w2.n, spaces, w2)
    ELSE [w EXCEPT !.err = FALSE]
write_spaces_loop(inserted, spaces, w) ==
    IF inserted < spaces
    THEN LET insert == Min(SPACES_LEN, spaces - inserted)
             w2 == write_str(w, Spaces(insert))
         IN  IF w2.err THEN w2
             ELSE write_spaces_loop(inserted + w2.n, spaces, w2)
    ELSE [w EXCEPT !.err = FALSE]

write_spaces(spaces, w) == write_spaces_loop(0, spaces, w)

write_newline_no_indent(ind, w) == write_str_all(w, <<LF>>)
write_newline_unchecked(ind, w) == write_spaces(ind, write_str_all(w, <<LF>>))
write_newline(ind, w) ==
    LET w1 == write_str_all(w, <<LF>>)
    IN  IF w1.err THEN w1 ELSE write_spaces(ind, w1)

(***************************************************************************)
(* lib.rs: the builder.  A builder operation returns the document and the  *)
(* nodes it handed to allocator.alloc, in call order.                      *)
(***************************************************************************)
Built(d, al) == [doc |-> d, alloc |-> al]

append_no_peephole(this, that) == Built(AppendDoc(this, that), <<this, that>>)
append(this, that) ==
    IF this.tag = "Nil" THEN Built(that, <<>>)
    ELSE IF that.tag = "Nil" THEN Built(this, <<>>)
    ELSE Built(AppendDoc(this, that), <<this, that>>)

group(this) == Built(Group(this), <<this>>)

nest(this, offset) ==
    IF offset = 0 THEN Built(this, <<>>)
    ELSE Built(Nest(offset, this), <<this>>)

annotate(this, ann) == Built(Annotated(ann, this), <<this>>)

\* docs.into_iter().fold(self.nil(), |a, b| a.append(b))
RECURSIVE concat_fold(_, _)
concat_fold(result, docs) ==
    IF docs = <<>> THEN result
    ELSE LET r == append(result.doc, Head(docs))
         IN  concat_fold(Built(r.doc, result.alloc \o r.alloc), Tail(docs))

concat(docs) == concat_fold(Built(Nil, <<>>), docs)

\* the loop of intersperse over the rest of the iterator
RECURSIVE intersperse_loop(_, _, _)
RECURSIVE intersperse_loop_trailing(_, _, _)
intersperse_loop_trailing(result, docs, separator) ==
    IF docs = <<>> THEN result
    ELSE LET r1 == append(result.doc, Head(docs))
             r2 == append(r1.doc, separator)
         IN  intersperse_loop_trailing(Built(r2.doc, result.alloc \o r1.alloc \o r2.alloc),
                                       Tail(docs), separator)
intersperse_loop(result, docs, separator) ==
    IF docs = <<>> THEN result
    ELSE LET r1 == append(result.doc, separator)
             r2 == append(r1.doc, Head(docs))
         IN  intersperse_loop(Built(r2.doc, result.alloc \o r1.alloc \o r2.alloc),
                              Tail(docs), separator)

intersperse(docs, separator) ==
    LET first == IF docs = <<>> THEN Built(Nil, <<>>) ELSE append(Nil, Head(docs))
    IN  intersperse_loop(first, IF docs = <<>> THEN <<>> ELSE Tail(docs), separator)

(***************************************************************************)
(* The documents the model renders: a generic family closed under the      *)
(* variants, and the documents of the crate's tests and doc-test.          *)
(***************************************************************************)
Chars(c, n) == [i \in 1..n |-> c]
Str4 == <<"t", "e", "s", "t">>

Texts == {Text(Chars("a", n)) : n \in 1..MaxTextLen}
Leaves == {Space, Newline} \cup Texts
Pairs(S, T) == {AppendDoc(x, y) : x \in S, y \in T}
Docs1 == {Nil} \cup Leaves \cup Pairs(Leaves, Leaves)
Wrapped1 ==
    Docs1 \cup {Group(d) : d \in Docs1}
          \cup {Nest(2, d) : d \in Docs1}
          \cup {Block(2, d) : d \in Docs1}
          \cup {Union(x, y) : x \in Leaves, y \in Leaves}
\* what follows the first part of a document: a leaf, or a soft break and a
\* text, bare or under one of the wrappers
Followers ==
    Leaves \cup {AppendDoc(Space, t) : t \in Texts}
           \cup {Group(AppendDoc(Space, t)) : t \in Texts}
           \cup {Nest(2, AppendDoc(Space, t)) : t \in Texts}
           \cup {Block(2, AppendDoc(Space, t)) : t \in Texts}
           \cup {Union(Space, t) : t \in Texts}
Docs2 == Wrapped1 \cup Pairs(Wrapped1, Followers)
\* wrappers under wrappers
DeepDocs ==
    {Nest(2, AppendDoc(Text(<<"a">>), Block(2, AppendDoc(Newline, Text(<<"a">>))))),
     Nest(1, Block(2, AppendDoc(Newline, AppendDoc(Space, Text(<<"a">>))))),
     Group(Nest(1, AppendDoc(Group(Nest(2, AppendDoc(Text(<<"a">>), AppendDoc(Space, Text(<<"a">>))))),
                             AppendDoc(Space, Text(<<"a">>))))),
     Group(AppendDoc(Union(AppendDoc(Text(<<"a">>), AppendDoc(Space, Text(<<"a">>))),
                           AppendDoc(Text(<<"a">>), AppendDoc(Newline, Text(<<"a">>)))),
                     AppendDoc(Space, Text(<<"a">>)))),
     Union(Union(AppendDoc(Text(<<"a">>), AppendDoc(Space, Text(<<"a">>))), Text(<<"a">>)),
           AppendDoc(Text(<<"a">>), Space))}
GenericDocs == Docs2 \cup {Group(d) : d \in Docs2} \cup DeepDocs

\* lib.rs doc-test: SExp::List([1, 2, 3]).to_doc()
SExpDoc ==
    append(append(Text(<<"(">>),
                  group(nest(intersperse(<<Text(<<"1">>), Text(<<"2">>), Text(<<"3">>)>>,
                                         Space).doc, 1).doc).doc).doc,
           Text(<<")">>)).doc
\* tests::forced_newline
ForcedNewlineDoc ==
    Group(append(append(Text(Str4), Newline).doc, Text(Str4)).doc)
\* tests::space_do_not_reset_pos
SpaceResetDoc ==
    append(append(Group(append(Text(Str4), Space).doc), Text(Str4)).doc,
           append(Group(Space), Text(Str4)).doc).doc
\* not a document of the crate: the scenario with the last text inside the
\* second group
SpaceResetInGroupDoc ==
    append(append(Group(append(Text(Str4), Space).doc), Text(Str4)).doc,
           Group(append(Space, Text(Str4)).doc)).doc
\* tests::newline_does_not_cause_next_line_to_be_to_long
NewlineLongDoc ==
    Group(append(append(Text(Str4), Newline).doc,
                 append(append(Text(Str4), Space).doc, Text(Str4)).doc).doc)
\* tests::block
BracesDoc ==
    Group(append(append(append(Text(<<"{">>),
                               nest(append(append(append(Space, Text(Str4)).doc,
                                                  Space).doc,
                                           Text(Str4)).doc, 2).doc).doc,
                        Space).doc,
                 Text(<<"}">>)).doc)

\* a render call: the document, the width, and the sink (TRUE: render on an
\* io::Write that may write short or fail, FALSE: render_fmt into a String)
Job(d, w, f) == [doc |-> d, width |-> w, faulty |-> f]

Scenarios ==
    {Job(SExpDoc, 10, FALSE), Job(SExpDoc, 5, FALSE),
     Job(ForcedNewlineDoc, 70, FALSE), Job(SpaceResetDoc, 9, FALSE),
     Job(NewlineLongDoc, 6, FALSE), Job(BracesDoc, 5, FALSE)}

\* the documents rendered on a writer that may write short or fail: at most
\* two leaves, and a soft break under an indent longer than the buffer of
\* spaces
FaultyDocs ==
    Docs1 \cup {Nest(2, d) : d \in Leaves} \cup {Group(d) : d \in Leaves}
          \cup {Nest(SPACES_LEN + 1, AppendDoc(Space, Text(<<"a">>)))}

RenderJobs ==
    {Job(d, w, FALSE) : d \in GenericDocs, w \in 0..MaxWidth}
    \cup {Job(d, w, TRUE) : d \in FaultyDocs, w \in {1, MaxWidth}}
    \cup Scenarios \cup {Job(SpaceResetInGroupDoc, 9, FALSE)}

(***************************************************************************)
(* State.                                                                  *)
(*   doc, width          the arguments of the render call in progress      *)
(*   faulty              the sink of that call: TRUE is render on an       *)
(*                       io::Write that may write short or fail, FALSE is  *)
(*                       render_fmt into a String                          *)
(*   pos, bcmds, fcmds, current_indentation   the locals of best           *)
(*   out, wlog, reqs     the writer: bytes accepted, results of its calls, *)
(*                       sizes of the writes its calls asked for           *)
(*   rlog                the calls made on the sink adapter                *)
(*   pc                  "build" (a builder call is to be made), "idle"    *)
(*                       (no call is running), "best" (at the head         *)
(*                       of best's loop), "fit" (at the head of fitting_'s *)
(*                       loop), "ret" (a fitting call is returning ret)    *)
(*   cur                 the command best popped and is probing for        *)
(*   frames              the active fitting calls, innermost last: the     *)
(*                       seed next, the entry length of fcmds, bidx, rem,  *)
(*                       and the command the caller pushes when the call   *)
(*                       it made fails                                     *)
(*   result              what the last render call returned                *)
(*   jobs, outs          render calls still to make; outputs of those made *)
(*   call, built         the builder call to make; what it returned        *)
(*   bghost              history: for every entry of bcmds, whether it     *)
(*                       lies inside a group that was laid out in Break    *)
(*                       mode ("direct": with no Group or Union in         *)
(*                       between, "nested": under a further Group or       *)
(*                       Union) or in no such group ("none")               *)
(***************************************************************************)
VARIABLES doc, width, faulty, pos, bcmds, fcmds, current_indentation, out,
          wlog, reqs, rlog, pc, cur, frames, ret, result, jobs, outs, call, built,
          bghost

vars == <<doc, width, faulty, pos, bcmds, fcmds, current_indentation, out,
          wlog, reqs, rlog, pc, cur, frames, ret, result, jobs, outs, call, built,
          bghost>>

NoCmd == Cmd(0, Flat, Nil)
NoCall == [op |-> "none"]
NoBuilt == Built(Nil, <<>>)
Frame(next, start, bidx, rem) ==
    [next |-> next, start |-> start, bidx |-> bidx, rem |-> rem, pend |-> NoCmd]
Outcome(o, r) == [out |-> o, result |-> r]

\* the state before any call is made, with the render calls js and the
\* builder call c to make
Idle(js, c) ==
    /\ doc = Nil /\ width = 0 /\ faulty = FALSE
    /\ pos = 0 /\ bcmds = <<>> /\ fcmds = <<>>
    /\ current_indentation = 0 /\ out = <<>> /\ wlog = <<>> /\ reqs = <<>>
    /\ rlog = <<>>
    /\ pc = (IF c.op = "none" THEN "idle" ELSE "build") /\ cur = NoCmd /\ frames = <<>> /\ ret = FALSE
    /\ result = "none" /\ jobs = js /\ outs = <<>>
    /\ call = c /\ built = NoBuilt /\ bghost = <<>>

Init == \E j \in RenderJobs : Idle(<<j>>, NoCall)

(***************************************************************************)
(* doc.rs best, lines 261-264: entry of a render call.                     *)
(***************************************************************************)
StartRender ==
    /\ pc = "idle" /\ jobs # <<>>
    /\ doc' = Head(jobs).doc /\ width' = Head(jobs).width
    /\ faulty' = Head(jobs).faulty
    /\ jobs' = Tail(jobs)
    /\ pos' = 0
    /\ bcmds' = <<Cmd(0, Break, Head(jobs).doc)>>
    /\ fcmds' = <<>>
    /\ current_indentation' = 0
    /\ out' = <<>> /\ wlog' = <<>> /\ reqs' = <<>> /\ rlog' = <<>>
    /\ result' = "none"
    /\ pc' = "best" /\ bghost' = <<"none">>
    /\ UNCHANGED <<cur, frames, ret, outs, call, built>>

\* Append: push the right child, walk the left spine pushing every right
\* child, push the leftmost document
PushAppendLeftLast(stack, ind, mode, d) ==
    IF d.tag = "Append"
    THEN Append(Append(stack, Cmd(ind, mode, d.l)), Cmd(ind, mode, d.r))
    ELSE Append(stack, Cmd(ind, mode, d))
RECURSIVE PushAppend(_, _, _, _)
PushAppend(stack, ind, mode, d) ==
    IF d.tag = "Append"
    THEN PushAppend(Append(stack, Cmd(ind, mode, d.r)), ind, mode, d.l)
    ELSE Append(stack, Cmd(ind, mode, d))

\* rem = width as isize - pos as isize
BudgetOneShort(w, p) == w - p - 1
Budget(w, p) == w - p

\* what best pushes for a Group popped in Break mode, once probed
GroupChoiceSwapped(c, fits) ==
    IF fits THEN Cmd(c.ind, Break, c.doc.d) ELSE Cmd(c.ind, Flat, c.doc.d)
GroupChoice(c, fits) ==
    IF fits THEN Cmd(c.ind, Flat, c.doc.d) ELSE Cmd(c.ind, Break, c.doc.d)

\* what best pushes for a Union, once probed
UnionChoice(c, fits) ==
    Cmd(c.ind, c.mode, IF fits THEN c.doc.x ELSE c.doc.y)

\* the indent best gives the inner document of a Block
BlockIndent(ind, off, ci) == IF ind = ci THEN ind + off ELSE ind

\* pos after a Space, set after the match on the mode: in either mode
SpacePos(ind, p) == ind
\* pos after a Newline
NewlinePos(ind, p) == ind
\* pos after a Text
TextPos(p, s) == p + Len(s)

\* history: the children of a Group or Union lie under a further choice point
Under(g) == IF g = "none" THEN "none" ELSE "nested"
\* history: the entries best pushed in this step all carry g
Ghost(g) ==
    bghost' = Pop(bghost) \o [i \in 1..(Len(bcmds') - Len(bcmds) + 1) |-> g]

\* what a writer may answer to one call: an error, an error of kind
\* Interrupted, or the most bytes it accepts
WriterAnswers == {-1, -2, 0, 1, SPACES_LEN}
\* the answers a writer may give to the calls of one step: a String accepts
\* everything
StepResponses == IF faulty THEN SeqsUpTo(WriterAnswers, MaxAnswers) ELSE {<<>>}

BestPre == pc = "best" /\ bcmds # <<>>
ProbeIdle == UNCHANGED <<fcmds, cur, frames, ret>>
JobSame == UNCHANGED <<doc, width, faulty, jobs, call, built>>
NoWrite == UNCHANGED <<out, wlog, reqs, rlog, result, outs>>

\* a step of best that only rearranges bcmds
BestPush(stack, g) ==
    /\ bcmds' = stack
    /\ Ghost(g)
    /\ pc' = "best"
    /\ UNCHANGED <<pos, current_indentation>>
    /\ ProbeIdle /\ JobSame /\ NoWrite

\* a step of best that wrote to the sink, leaving it as w: try! returns the
\* error, dropping the stacks; otherwise the loop goes on
BestWrote(w, p, ci) ==
    /\ out' = w.out /\ wlog' = w.wlog /\ reqs' = w.req /\ rlog' = w.rlog
    /\ IF w.err
       THEN /\ result' = "Err" /\ pc' = "idle"
            /\ bcmds' = <<>> /\ bghost' = <<>>
            /\ outs' = Append(outs, Outcome(w.out, "Err"))
            /\ UNCHANGED <<pos, current_indentation>>
       ELSE /\ pc' = "best"
            /\ bcmds' = Pop(bcmds) /\ bghost' = Pop(bghost)
            /\ pos' = p /\ current_indentation' = ci
            /\ UNCHANGED <<result, outs>>
    /\ ProbeIdle /\ JobSame

\* fitting(next, bcmds, fcmds, bidx, rem): record the entry length and push
\* the seed
BestProbe(next) ==
    /\ cur' = Top(bcmds)
    /\ bcmds' = Pop(bcmds)
    /\ frames' = <<Frame(next, 0, Len(bcmds) - 1, Budget(width, pos))>>
    /\ fcmds' = <<next>>
    /\ pc' = "fit"
    /\ UNCHANGED <<pos, current_indentation, ret, bghost>>
    /\ JobSame /\ NoWrite

BestNil ==
    /\ BestPre /\ Top(bcmds).doc.tag = "Nil"
    /\ BestPush(Pop(bcmds), Top(bghost))

BestAppend ==
    /\ BestPre /\ Top(bcmds).doc.tag = "Append"
    /\ LET c == Top(bcmds)
       IN  BestPush(PushAppend(Pop(bcmds), c.ind, c.mode, c.doc), Top(bghost))

BestGroupFlat ==
    /\ BestPre /\ Top(bcmds).doc.tag = "Group" /\ Top(bcmds).mode = Flat
    /\ LET c == Top(bcmds)
       IN  BestPush(Append(Pop(bcmds), Cmd(c.ind, Flat, c.doc.d)), Under(Top(bghost)))

BestGroupBreak ==
    /\ BestPre /\ Top(bcmds).doc.tag = "Group" /\ Top(bcmds).mode = Break
    /\ LET c == Top(bcmds)
       IN  BestProbe(Cmd(c.ind, Flat, c.doc.d))

BestNest ==
    /\ BestPre /\ Top(bcmds).doc.tag = "Nest"
    /\ LET c == Top(bcmds)
       IN  BestPush(Append(Pop(bcmds), Cmd(c.ind + c.doc.k, c.mode, c.doc.d)),
                    Top(bghost))

BestBlock ==
    /\ BestPre /\ Top(bcmds).doc.tag = "Block"
    /\ LET c == Top(bcmds)
       IN  BestPush(Append(Pop(bcmds),
                           Cmd(BlockIndent(c.ind, c.doc.k, current_indentation),
                               c.mode, c.doc.d)),
                    Top(bghost))

BestSpaceFlat ==
    /\ BestPre /\ Top(bcmds).doc.tag = "Space" /\ Top(bcmds).mode = Flat
    /\ \E rs \in StepResponses :
          BestWrote(write_spaces(1, Sink(out, wlog, reqs, rlog, rs, faulty)),
                    SpacePos(Top(bcmds).ind, pos), current_indentation)

BestSpaceBreak ==
    /\ BestPre /\ Top(bcmds).doc.tag = "Space" /\ Top(bcmds).mode = Break
    /\ \E rs \in StepResponses :
          BestWrote(write_newline(Top(bcmds).ind, Sink(out, wlog, reqs, rlog, rs, faulty)),
                    SpacePos(Top(bcmds).ind, pos), Top(bcmds).ind)

BestNewline ==
    /\ BestPre /\ Top(bcmds).doc.tag = "Newline"
    /\ \E rs \in StepResponses :
          BestWrote(write_newline(Top(bcmds).ind, Sink(out, wlog, reqs, rlog, rs, faulty)),
                    NewlinePos(Top(bcmds).ind, pos), Top(bcmds).ind)

BestText ==
    /\ BestPre /\ Top(bcmds).doc.tag = "Text"
    /\ \E rs \in StepResponses :
          BestWrote(write_str_all(Sink(out, wlog, reqs, rlog, rs, faulty), Top(bcmds).doc.s),
                    TextPos(pos, Top(bcmds).doc.s), current_indentation)

BestUnion ==
    /\ BestPre /\ Top(bcmds).doc.tag = "Union"
    /\ LET c == Top(bcmds)
       IN  BestProbe(Cmd(c.ind, Flat, c.doc.x))

\* bcmds.pop() is None: Ok(())
BestFinish ==
    /\ pc = "best" /\ bcmds = <<>>
    /\ result' = "Ok" /\ pc' = "idle"
    /\ outs' = Append(outs, Outcome(out, "Ok"))
    /\ UNCHANGED <<pos, bcmds, current_indentation, out, wlog, reqs, rlog,
                   bghost>>
    /\ ProbeIdle /\ JobSame

(***************************************************************************)
(* doc.rs fitting / fitting_: one action per iteration of the loop of the  *)
(* innermost active call.  bcmds is read only; bidx counts the entries of  *)
(* bcmds not yet taken.                                                    *)
(***************************************************************************)
FitPre == pc = "fit" /\ frames # <<>>
FitRun == FitPre /\ Top(frames).rem >= 0
FitPop == FitRun /\ Len(fcmds) > Top(frames).start
BestSame == UNCHANGED <<pos, bcmds, current_indentation, cur, bghost>>
SetTop(fs, f) == Append(Pop(fs), f)

\* the inner document of a Group met by the probe
FitGroupCmd(c) == Cmd(c.ind, c.mode, c.doc.d)
\* the inner document of a Nest or Block met by the probe
FitNestCmdFlat(c) == Cmd(c.ind + c.doc.k, Flat, c.doc.d)
FitNestCmd(c) == Cmd(c.ind + c.doc.k, c.mode, c.doc.d)
\* the seed of the probe of the left side of a Union met by the probe
FitUnionSeed(c) == Cmd(c.ind, Flat, c.doc.x)
\* what the probe pushes when that left side does not fit
FitUnionElse(c) == Cmd(c.ind, c.mode, c.doc.y)
\* rem after a Flat Space, after a Text
FitSpaceRem(rem) == rem - 1
FitTextRem(rem, s) == rem - Len(s)

\* an iteration that goes on with the scratch stack fs and the budget rem
FitGoOn(fs, rem) ==
    /\ fcmds' = fs
    /\ frames' = SetTop(frames, [Top(frames) EXCEPT !.rem = rem])
    /\ pc' = "fit"
    /\ UNCHANGED ret
    /\ BestSame /\ JobSame /\ NoWrite

\* fitting_ returns b
FitReturns(b) ==
    /\ ret' = b /\ pc' = "ret"
    /\ UNCHANGED <<fcmds, frames>>
    /\ BestSame /\ JobSame /\ NoWrite

\* while rem >= 0 fails: return false
FitFail ==
    /\ FitPre /\ Top(frames).rem < 0
    /\ FitReturns(FALSE)

\* all commands have been processed
FitExhausted ==
    /\ FitRun /\ Len(fcmds) <= Top(frames).start /\ Top(frames).bidx = 0
    /\ FitReturns(TRUE)

\* fcmds.push(bcmds[bidx - 1]); bidx -= 1
FitRefill ==
    /\ FitRun /\ Len(fcmds) <= Top(frames).start /\ Top(frames).bidx > 0
    /\ fcmds' = Append(fcmds, bcmds[Top(frames).bidx])
    /\ frames' = SetTop(frames, [Top(frames) EXCEPT !.bidx = @ - 1])
    /\ pc' = "fit"
    /\ UNCHANGED ret
    /\ BestSame /\ JobSame /\ NoWrite

FitNil ==
    /\ FitPop /\ Top(fcmds).doc.tag = "Nil"
    /\ FitGoOn(Pop(fcmds), Top(frames).rem)

FitAppend ==
    /\ FitPop /\ Top(fcmds).doc.tag = "Append"
    /\ LET c == Top(fcmds)
       IN  FitGoOn(PushAppend(Pop(fcmds), c.ind, c.mode, c.doc), Top(frames).rem)

FitGroup ==
    /\ FitPop /\ Top(fcmds).doc.tag = "Group"
    /\ FitGoOn(Append(Pop(fcmds), FitGroupCmd(Top(fcmds))), Top(frames).rem)

FitNest ==
    /\ FitPop /\ Top(fcmds).doc.tag \in {"Nest", "Block"}
    /\ FitGoOn(Append(Pop(fcmds), FitNestCmd(Top(fcmds))), Top(frames).rem)

FitSpaceFlat ==
    /\ FitPop /\ Top(fcmds).doc.tag = "Space" /\ Top(fcmds).mode = Flat
    /\ FitGoOn(Pop(fcmds), FitSpaceRem(Top(frames).rem))

FitSpaceBreak ==
    /\ FitPop /\ Top(fcmds).doc.tag = "Space" /\ Top(fcmds).mode = Break
    /\ fcmds' = Pop(fcmds)
    /\ ret' = TRUE /\ pc' = "ret"
    /\ UNCHANGED frames
    /\ BestSame /\ JobSame /\ NoWrite

FitNewline ==
    /\ FitPop /\ Top(fcmds).doc.tag = "Newline"
    /\ fcmds' = Pop(fcmds)
    /\ ret' = TRUE /\ pc' = "ret"
    /\ UNCHANGED frames
    /\ BestSame /\ JobSame /\ NoWrite

FitText ==
    /\ FitPop /\ Top(fcmds).doc.tag = "Text"
    /\ FitGoOn(Pop(fcmds), FitTextRem(Top(frames).rem, Top(fcmds).doc.s))

\* fitting((ind, Flat, x), bcmds, fcmds, bidx, rem) from inside fitting_:
\* the callee gets copies of bidx and rem and the shared scratch stack
FitUnion ==
    /\ FitPop /\ Top(fcmds).doc.tag = "Union"
    /\ LET c == Top(fcmds)
           f == Top(frames)
       IN  /\ fcmds' = Append(Pop(fcmds), FitUnionSeed(c))
           /\ frames' = Append(SetTop(frames, [f EXCEPT !.pend = FitUnionElse(c)]),
                               Frame(FitUnionSeed(c), Len(fcmds) - 1, f.bidx, f.rem))
    /\ pc' = "fit"
    /\ UNCHANGED ret
    /\ BestSame /\ JobSame /\ NoWrite

\* the outermost fitting call returns to the Group arm of best:
\* fcmds.truncate(fcmds_start_len), then the push of the chosen command
FitReturnGroup ==
    /\ pc = "ret" /\ Len(frames) = 1 /\ cur.doc.tag = "Group"
    /\ fcmds' = Truncate(fcmds, Top(frames).start)
    /\ frames' = <<>>
    /\ bcmds' = Append(bcmds, GroupChoice(cur, ret))
    /\ bghost' = SetTop(bghost, IF ret THEN Under(Top(bghost)) ELSE "direct")
    /\ cur' = NoCmd
    /\ pc' = "best"
    /\ UNCHANGED <<pos, current_indentation, ret>>
    /\ JobSame /\ NoWrite

\* the outermost fitting call returns to the Union arm of best
FitReturnUnion ==
    /\ pc = "ret" /\ Len(frames) = 1 /\ cur.doc.tag = "Union"
    /\ fcmds' = Truncate(fcmds, Top(frames).start)
    /\ frames' = <<>>
    /\ bcmds' = Append(bcmds, UnionChoice(cur, ret))
    /\ bghost' = SetTop(bghost, Under(Top(bghost)))
    /\ cur' = NoCmd
    /\ pc' = "best"
    /\ UNCHANGED <<pos, current_indentation, ret>>
    /\ JobSame /\ NoWrite

\* a nested fitting call returns true to the Union arm of fitting_, which
\* returns true in turn
FitReturnInnerTrue ==
    /\ pc = "ret" /\ Len(frames) > 1 /\ ret
    /\ fcmds' = Truncate(fcmds, Top(frames).start)
    /\ frames' = Pop(frames)
    /\ pc' = "ret"
    /\ UNCHANGED ret
    /\ BestSame /\ JobSame /\ NoWrite

\* a nested fitting call returns false: fcmds.push((ind, mode, y))
FitReturnInnerFalse ==
    /\ pc = "ret" /\ Len(frames) > 1 /\ ~ret
    /\ fcmds' = Append(Truncate(fcmds, Top(frames).start), frames[Len(frames) - 1].pend)
    /\ frames' = SetTop(Pop(frames), [frames[Len(frames) - 1] EXCEPT !.pend = NoCmd])
    /\ pc' = "fit"
    /\ UNCHANGED ret
    /\ BestSame /\ JobSame /\ NoWrite

BestStep ==
    \/ BestNil \/ BestAppend \/ BestGroupFlat \/ BestGroupBreak \/ BestNest
    \/ BestBlock \/ BestSpaceFlat \/ BestSpaceBreak \/ BestNewline \/ BestText
    \/ BestUnion \/ BestFinish

FitStep ==
    \/ FitFail \/ FitExhausted \/ FitRefill \/ FitNil \/ FitAppend \/ FitGroup
    \/ FitNest \/ FitSpaceFlat \/ FitSpaceBreak \/ FitNewline \/ FitText
    \/ FitUnion \/ FitReturnGroup \/ FitReturnUnion \/ FitReturnInnerTrue
    \/ FitReturnInnerFalse

Next == StartRender \/ BestStep \/ FitStep

Spec == Init /\ [][Next]_vars

Done == pc = "idle" /\ jobs = <<>> /\ outs # <<>>

(***************************************************************************)
(* Layout choice of a Group.                                               *)
(***************************************************************************)
\* best is about to dispatch on a command of variant tag
AtBest(tag) == pc = "best" /\ bcmds # <<>> /\ Top(bcmds).doc.tag = tag

\* a Group popped in Flat mode is pushed Flat, without a probe
GroupFlatStays ==
    (AtBest("Group") /\ Top(bcmds).mode = Flat) =>
        /\ pc' = "best" /\ frames' = <<>> /\ fcmds' = fcmds
        /\ bcmds' = Append(Pop(bcmds), Cmd(Top(bcmds).ind, Flat, Top(bcmds).doc.d))

\* a Group popped in Break mode is probed: seed (ind, Flat, d), the whole of
\* the remaining bcmds as continuation, budget width - pos
GroupBreakProbes ==
    (AtBest("Group") /\ Top(bcmds).mode = Break) =>
        /\ pc' = "fit"
        /\ bcmds' = Pop(bcmds)
        /\ fcmds' = <<Cmd(Top(bcmds).ind, Flat, Top(bcmds).doc.d)>>
        /\ Len(frames') = 1
        /\ frames'[1].start = 0
        /\ frames'[1].bidx = Len(bcmds) - 1
        /\ frames'[1].rem = width - pos

\* the probed Group is rendered Flat if and only if the probe succeeded
GroupFlatIffFits ==
    (pc = "ret" /\ Len(frames) = 1 /\ cur.doc.tag = "Group") =>
        /\ pc' = "best"
        /\ bcmds' = Append(bcmds, Cmd(cur.ind, IF ret THEN Flat ELSE Break, cur.doc.d))

\* a Space whose history mark is in marks emits a line feed and its indent
\* (unless the sink fails)
SpaceBreaksIn(marks) ==
    (AtBest("Space") /\ Top(bghost) \in marks) =>
        \/ result' = "Err"
        \/ out' = out \o <<LF>> \o Spaces(Top(bcmds).ind)

\* C1 as stated: a Group popped in Break mode is rendered Flat iff the fit
\* probe with budget W - pos succeeds, a Group popped in Flat mode stays Flat
\* without probing, and once a group has been rendered in Break mode every
\* Space inside it, at any depth, emits a line feed followed by its indent.
C1_AsStated ==
    [][GroupFlatStays /\ GroupBreakProbes /\ GroupFlatIffFits
       /\ SpaceBreaksIn({"direct", "nested"})]_vars

\* C1 amended: the same choice of mode, and once a group has been rendered in
\* Break mode every Space inside it that lies under no further Group or Union
\* emits a line feed followed by its indent.
C1_GroupChoice ==
    [][GroupFlatStays /\ GroupBreakProbes /\ GroupFlatIffFits
       /\ SpaceBreaksIn({"direct"})]_vars

A1 == Text(<<"a">>)
C1_Doc ==
    Group(Nest(1, AppendDoc(Group(Nest(2, AppendDoc(A1, AppendDoc(Space, A1)))),
                            AppendDoc(Space, A1))))
\* the outer group breaks at width 3, the group inside it fits
C1_Witness ==
    /\ Done /\ result = "Ok" /\ doc = C1_Doc /\ width = 3
    /\ out = <<"a", SP, "a", LF, SP, "a">>

(***************************************************************************)
(* Reference layouts of a document made of Text, Space, Nest and Append.   *)
(***************************************************************************)
RECURSIVE Simple(_)
Simple(d) ==
    CASE d.tag \in {"Text", "Space"} -> TRUE
      [] d.tag = "Nest" -> Simple(d.d)
      [] d.tag = "Append" -> Simple(d.l) /\ Simple(d.r)
      [] OTHER -> FALSE

\* bytes of the Text leaves plus one per Space
RECURSIVE FlatLen(_)
FlatLen(d) ==
    CASE d.tag = "Text" -> Len(d.s)
      [] d.tag = "Space" -> 1
      [] d.tag = "Nest" -> FlatLen(d.d)
      [] d.tag = "Append" -> FlatLen(d.l) + FlatLen(d.r)
      [] OTHER -> 0

\* every Space is one space
RECURSIVE FlatLayout(_)
FlatLayout(d) ==
    CASE d.tag = "Text" -> d.s
      [] d.tag = "Space" -> <<SP>>
      [] d.tag = "Nest" -> FlatLayout(d.d)
      [] d.tag = "Append" -> FlatLayout(d.l) \o FlatLayout(d.r)
      [] OTHER -> <<>>

\* every Space is a line feed and the sum of the enclosing Nest offsets
RECURSIVE BreakLayout(_, _)
BreakLayout(d, ind) ==
    CASE d.tag = "Text" -> d.s
      [] d.tag = "Space" -> <<LF>> \o Spaces(ind)
      [] d.tag = "Nest" -> BreakLayout(d.d, ind + d.k)
      [] d.tag = "Append" -> BreakLayout(d.l, ind) \o BreakLayout(d.r, ind)
      [] OTHER -> <<>>

Rendered(d, w) == Done /\ result = "Ok" /\ doc = d /\ width = w

\* C2: a top-level group of Text, Space and Nest only, rendered from column 0
\* with nothing after it, is its flat line when its flat length is at most W,
\* and otherwise has every Space rendered as a line feed followed by the sum
\* of the enclosing Nest offsets in spaces; the s-expression list and the
\* braces document render as the crate's tests say.
C2_GroupLayout ==
    /\ (Done /\ result = "Ok" /\ doc.tag = "Group" /\ Simple(doc.d)) =>
           out = IF FlatLen(doc.d) <= width
                 THEN FlatLayout(doc.d) ELSE BreakLayout(doc.d, 0)
    /\ Rendered(SExpDoc, 10) =>
           out = <<"(", "1", SP, "2", SP, "3", ")">>
    /\ Rendered(SExpDoc, 5) =>
           out = <<"(", "1", LF, SP, "2", LF, SP, "3", ")">>
    /\ Rendered(BracesDoc, 5) =>
           out = <<"{", LF, SP, SP>> \o Str4 \o <<LF, SP, SP>> \o Str4 \o <<LF, "}">>

C2_Witness ==
    /\ Rendered(BracesDoc, 5)
    /\ FlatLen(BracesDoc.d) = 13
    /\ out = <<"{", LF, SP, SP>> \o Str4 \o <<LF, SP, SP>> \o Str4 \o <<LF, "}">>

\* C3: a Newline inside a group does not make what follows it believe it
\* fits: group(test . newline . (test . space . test)) at width 6 renders as
\* "test\ntest\ntest".
C3_NewlineThenBreaks ==
    Rendered(NewlineLongDoc, 6) => out = Str4 \o <<LF>> \o Str4 \o <<LF>> \o Str4

\* C4: a Space rendered in Flat mode emits one space and advances pos by
\* exactly one, so that a later sibling group is measured against the real
\* column: the document of tests::space_do_not_reset_pos, and the document
\* with the last text inside the second group, render at width 9 as
\* "test test\ntest".
C4_FlatSpaceAdvances ==
    [][/\ (AtBest("Space") /\ Top(bcmds).mode = Flat /\ result' # "Err") =>
              (out' = out \o <<SP>> /\ pos' = pos + 1)
       /\ ((Rendered(SpaceResetDoc, 9) \/ Rendered(SpaceResetInGroupDoc, 9)) =>
              out = Str4 \o <<SP>> \o Str4 \o <<LF>> \o Str4)']_vars

\* number of line feeds in a sequence of bytes
LFCount(o) == Cardinality({i \in 1..Len(o) : o[i] = LF})

\* C5: every line feed of the output is written by a Newline, in either mode,
\* or by a Break-mode Space, and is immediately followed by exactly the ind
\* spaces of that command, after which pos and current_indentation are ind;
\* group(test . newline . test) at width 70 renders as "test\ntest".
C5_LineFeedIndent ==
    [][/\ (/\ AtBest("Newline") \/ (AtBest("Space") /\ Top(bcmds).mode = Break)
           /\ result' # "Err") =>
              /\ out' = out \o <<LF>> \o Spaces(Top(bcmds).ind)
              /\ pos' = Top(bcmds).ind
              /\ current_indentation' = Top(bcmds).ind
       /\ ~(AtBest("Newline") \/ (AtBest("Space") /\ Top(bcmds).mode = Break)) =>
              LFCount(out') <= LFCount(out)
       /\ (Rendered(ForcedNewlineDoc, 70) => out = Str4 \o <<LF>> \o Str4)']_vars

\* a Newline under a Nest in a group that fits: written in Flat mode
C5_Witness ==
    /\ Rendered(Group(AppendDoc(Nest(2, AppendDoc(A1, Newline)), A1)), 4)
    /\ out = <<"a", LF, SP, SP, "a">>
    /\ pos = 3 /\ current_indentation = 2

\* C6: when best pops Union(x, y) it probes x flat against W - pos; if x fits
\* x is rendered in Flat mode, also when the Union was popped in Break mode,
\* otherwise y is rendered in the enclosing mode.
C6_UnionChoice ==
    [][/\ AtBest("Union") =>
              /\ pc' = "fit"
              /\ fcmds' = <<Cmd(Top(bcmds).ind, Flat, Top(bcmds).doc.x)>>
              /\ Len(frames') = 1
              /\ frames'[1].bidx = Len(bcmds) - 1
              /\ frames'[1].rem = width - pos
       /\ (pc = "ret" /\ Len(frames) = 1 /\ cur.doc.tag = "Union") =>
              bcmds' = Append(bcmds, IF ret THEN Cmd(cur.ind, Flat, cur.doc.x)
                                            ELSE Cmd(cur.ind, cur.mode, cur.doc.y))]_vars

\* total of the counts the sink accepted
RECURSIVE Accepted(_)
Accepted(lg) ==
    IF lg = <<>> THEN 0
    ELSE (IF Head(lg) < 0 THEN 0 ELSE Head(lg)) + Accepted(Tail(lg))

\* the results of the calls made on the sink adapter
Results(rl) == [i \in 1..Len(rl) |-> rl[i].res]

\* C7: when a write to the sink returns an error the render call returns that
\* error at once: the failing call is the last call made on the sink and on
\* the writer under it, no call of the sink is made again after it failed,
\* and the writer holds what it had accepted before.
C7_ErrorStops ==
    /\ \A i \in 1..(Len(rlog) - 1) : rlog[i].res >= 0
    /\ (rlog # <<>> /\ Top(rlog).res < 0) <=> (result = "Err")
    /\ result = "Err" =>
          /\ pc = "idle" /\ bcmds = <<>> /\ fcmds = <<>>
          /\ outs # <<>> /\ Top(outs) = Outcome(out, "Err")
          /\ Top(wlog) = Top(rlog).res \/ (Top(rlog).res = -3 /\ Top(wlog) = 0)
    /\ Len(out) = Accepted(wlog)
    /\ \A i \in 1..Len(wlog) : wlog[i] <= reqs[i]

\* the indent of a line break fails after its line feed and one of its two
\* spaces were accepted
C7_Witness ==
    /\ result = "Err" /\ doc = Nest(2, Newline)
    /\ wlog = <<1, 1, -1>> /\ out = <<LF, SP>>
    /\ Results(rlog) = <<1, 1, -1>>

(***************************************************************************)
(* lib.rs builder calls: the methods of DocBuilder and                     *)
(* DocAllocator::concat.                                                   *)
(***************************************************************************)
\* the operands of the builder calls
BuilderDocs == Wrapped1
BuilderOffsets == {0, 1, 2}

BuilderAnnotations == {"bold", "red"}
ConcatDocs == {Nil, Space, Text(<<"a">>), Group(Text(<<"a">>))}

BuilderCalls ==
    {[op |-> "append", this |-> a, that |-> b] : a \in BuilderDocs, b \in BuilderDocs}
    \cup {[op |-> "nest", this |-> a, offset |-> k] : a \in BuilderDocs, k \in BuilderOffsets}
    \cup {[op |-> "group", this |-> a] : a \in BuilderDocs}
    \cup {[op |-> "annotate", this |-> a, ann |-> x] :
             a \in BuilderDocs, x \in BuilderAnnotations}
    \cup {[op |-> "concat", docs |-> ds] : ds \in SeqsUpTo(ConcatDocs, MaxDocs)}

InitBuilder == \E c \in BuilderCalls : Idle(<<>>, c)

BuildOnly ==
    UNCHANGED <<doc, width, faulty, pos, bcmds, fcmds, current_indentation, out,
                wlog, reqs, rlog, cur, frames, ret, result, outs, call,
                bghost>>

CallAppend ==
    /\ pc = "build" /\ call.op = "append"
    /\ built' = append(call.this, call.that)
    /\ pc' = "idle"
    /\ UNCHANGED jobs
    /\ BuildOnly

CallNest ==
    /\ pc = "build" /\ call.op = "nest"
    /\ built' = nest(call.this, call.offset)
    /\ pc' = "idle"
    /\ UNCHANGED jobs
    /\ BuildOnly

CallGroup ==
    /\ pc = "build" /\ call.op = "group"
    /\ built' = group(call.this)
    /\ pc' = "idle"
    /\ UNCHANGED jobs
    /\ BuildOnly

CallAnnotate ==
    /\ pc = "build" /\ call.op = "annotate"
    /\ built' = annotate(call.this, call.ann)
    /\ pc' = "idle"
    /\ UNCHANGED jobs
    /\ BuildOnly

CallConcat ==
    /\ pc = "build" /\ call.op = "concat"
    /\ built' = concat(call.docs)
    /\ pc' = "idle"
    /\ UNCHANGED jobs
    /\ BuildOnly

NextBuilder == CallAppend \/ CallNest \/ CallGroup \/ CallAnnotate \/ CallConcat

SpecBuilder == InitBuilder /\ [][NextBuilder]_vars

\* C8: append(nil, d) and append(d, nil) return d itself and nest(0, d)
\* returns d itself, none of them allocating a node; append of two non-Nil
\* documents allocates exactly its two operands, and nest(k, d) with k > 0
\* allocates exactly d.
C8_Peephole ==
    /\ (pc = "idle" /\ call.op = "append") =>
          /\ call.this = Nil => built = Built(call.that, <<>>)
          /\ call.that = Nil => built = Built(call.this, <<>>)
          /\ (call.this # Nil /\ call.that # Nil) =>
                built = Built(AppendDoc(call.this, call.that), <<call.this, call.that>>)
    /\ (pc = "idle" /\ call.op = "nest") =>
          /\ call.offset = 0 => built = Built(call.this, <<>>)
          /\ call.offset > 0 =>
                built = Built(Nest(call.offset, call.this), <<call.this>>)

C8_Witness ==
    /\ pc = "idle" /\ call.op = "append"
    /\ call.this.tag = "Group" /\ call.that = Nil
    /\ built = Built(call.this, <<>>)

(***************************************************************************)
(* lib.rs intersperse, rendered next to the documents it was given.        *)
(***************************************************************************)
IntersperseDocs ==
    {Nil, A1,
     Group(AppendDoc(Group(A1), AppendDoc(Space, A1))),
     Nest(2, AppendDoc(Space, A1)),
     Block(2, AppendDoc(Newline, A1)),
     Union(Space, A1)}
Separators == {Nil, Space, Text(<<",">>)}
IntersperseWidths == {1, 3}

IntersperseCalls ==
    {[op |-> "intersperse", docs |-> ds, separator |-> sep, width |-> w] :
        ds \in SeqsUpTo(IntersperseDocs, MaxDocs), sep \in Separators,
        w \in IntersperseWidths}

\* the documents of ds in order with sep between each adjacent pair, as one
\* chain of Append nodes
RECURSIVE Interleaved(_, _)
Interleaved(ds, sep) ==
    IF ds = <<>> THEN Nil
    ELSE IF Len(ds) = 1 THEN ds[1]
    ELSE AppendDoc(AppendDoc(Interleaved(SubSeq(ds, 1, Len(ds) - 1), sep), sep),
                   ds[Len(ds)])

InitIntersperse == \E c \in IntersperseCalls : Idle(<<>>, c)

\* the call, followed by a render of its result and a render of the
\* documents it was given, both into a String
CallIntersperse ==
    /\ pc = "build" /\ call.op = "intersperse"
    /\ built' = intersperse(call.docs, call.separator)
    /\ jobs' = <<Job(built'.doc, call.width, FALSE),
                 Job(Interleaved(call.docs, call.separator), call.width, FALSE)>>
    /\ pc' = "idle"
    /\ BuildOnly

NextIntersperse == CallIntersperse \/ StartRender \/ BestStep \/ FitStep

SpecIntersperse == InitIntersperse /\ [][NextIntersperse]_vars

\* C9: intersperse(ds, sep) renders as the documents of ds in order with sep
\* between each adjacent pair and nothing before or after; intersperse([d],
\* sep) renders as d and intersperse([], sep) renders as the empty output.
C9_Intersperse ==
    (Done /\ call.op = "intersperse" /\ Len(outs) = 2) =>
        /\ outs[1].result = "Ok" /\ outs[2].result = "Ok"
        /\ outs[1].out = outs[2].out
        /\ call.docs = <<>> => (built.doc = Nil /\ outs[1].out = <<>>)
        /\ Len(call.docs) = 1 => built.doc = call.docs[1]

\* three documents, two separators
C9_Witness ==
    /\ Done /\ Len(outs) = 2
    /\ call.docs = <<A1, Nest(2, AppendDoc(Space, A1)), A1>>
    /\ call.separator = Text(<<",">>) /\ call.width = 3
    /\ outs[1].out = <<"a", ",", LF, SP, SP, "a", ",", "a">>

(***************************************************************************)
(* The fit probe.                                                          *)
(***************************************************************************)
\* fitting_ is about to dispatch on a command of one of the variants tags
AtFit(tags) ==
    /\ pc = "fit" /\ frames # <<>> /\ Top(frames).rem >= 0
    /\ Len(fcmds) > Top(frames).start
    /\ Top(fcmds).doc.tag \in tags

\* the inner document of a Nest, Block or Group is pushed in mode m(c), c
\* being the command popped
FitPushesInner(m(_)) ==
    /\ AtFit({"Group"}) =>
          fcmds' = Append(Pop(fcmds),
                          Cmd(Top(fcmds).ind, m(Top(fcmds)), Top(fcmds).doc.d))
    /\ AtFit({"Nest", "Block"}) =>
          fcmds' = Append(Pop(fcmds),
                          Cmd(Top(fcmds).ind + Top(fcmds).doc.k, m(Top(fcmds)),
                              Top(fcmds).doc.d))

\* a Flat Space charges 1; the probe returns true from its loop only on a
\* Break Space, on a Newline, or when nothing is left to measure
FitCharges ==
    /\ (AtFit({"Space"}) /\ Top(fcmds).mode = Flat) =>
          /\ pc' = "fit" /\ fcmds' = Pop(fcmds)
          /\ frames' = SetTop(frames, [Top(frames) EXCEPT !.rem = @ - 1])
    /\ (AtFit({"Space"}) /\ Top(fcmds).mode = Break) => (pc' = "ret" /\ ret')
    /\ AtFit({"Newline"}) => (pc' = "ret" /\ ret')
    /\ (pc = "fit" /\ pc' = "ret" /\ ret') =>
          \/ AtFit({"Space"}) /\ Top(fcmds).mode = Break
          \/ AtFit({"Newline"})
          \/ Len(fcmds) <= Top(frames).start /\ Top(frames).bidx = 0

ModeFlat(c) == Flat
ModeOfCmd(c) == c.mode

\* no entry of bcmds has been taken yet: the scratch stack holds only what
\* came from the probed seed
SeedOnly == pc = "fit" /\ frames # <<>> /\ Top(frames).bidx = Len(bcmds)

\* C10 as stated: during a fit probe the inner document of a Nest, Block or
\* Group is pushed in Flat mode, whether the command came from the seed or
\* from bcmds; a Flat Space charges 1 to rem; the probe succeeds immediately
\* only on a Break Space or a Newline.
C10_AsStated == [][FitPushesInner(ModeFlat) /\ FitCharges]_vars

\* C10 amended: the inner document is pushed in the mode of the command it
\* was popped from, which is Flat for everything that comes from the probed
\* seed and the command's own mode, Break or Flat, for a command taken from
\* bcmds, which the probe takes unchanged.
C10_ProbeModes ==
    [][/\ FitPushesInner(ModeOfCmd) /\ FitCharges
       /\ (SeedOnly => \A i \in 1..Len(fcmds) : fcmds[i].mode = Flat)'
       /\ (pc = "fit" /\ frames # <<>> /\ Top(frames).rem >= 0
           /\ Len(fcmds) <= Top(frames).start /\ Top(frames).bidx > 0) =>
              fcmds' = Append(fcmds, bcmds[Top(frames).bidx])]_vars

\* the probe of group(a) has taken the Break-mode Nest that follows it from
\* bcmds and pushed its inner document in Break mode
C10_Witness ==
    /\ doc = AppendDoc(Group(A1), Nest(2, AppendDoc(Space, A1)))
    /\ pc = "fit" /\ cur.doc = Group(A1)
    /\ Top(frames).bidx = 0 /\ Len(bcmds) = 1
    /\ fcmds = <<Cmd(2, Break, AppendDoc(Space, A1))>>

(***************************************************************************)
(* The probe of a Union met by the probe.                                  *)
(***************************************************************************)
\* whether the commands of stack, taken from its top, can be rendered on a
\* line with rem columns left: the measure of fitting_ on one stack, the
\* left side of a Union being tried before its right side
RECURSIVE FitsLine(_, _)
FitsLine(stack, rem) ==
    IF rem < 0 THEN FALSE
    ELSE IF stack = <<>> THEN TRUE
    ELSE LET c == Top(stack)
             rest == Pop(stack)
         IN  CASE c.doc.tag = "Nil" -> FitsLine(rest, rem)
               [] c.doc.tag = "Append" ->
                      FitsLine(PushAppend(rest, c.ind, c.mode, c.doc), rem)
               [] c.doc.tag = "Group" ->
                      FitsLine(Append(rest, Cmd(c.ind, c.mode, c.doc.d)), rem)
               [] c.doc.tag \in {"Nest", "Block"} ->
                      FitsLine(Append(rest, Cmd(c.ind + c.doc.k, c.mode, c.doc.d)), rem)
               [] c.doc.tag = "Space" ->
                      IF c.mode = Flat THEN FitsLine(rest, rem - 1) ELSE TRUE
               [] c.doc.tag = "Newline" -> TRUE
               [] c.doc.tag = "Text" -> FitsLine(rest, rem - Len(c.doc.s))
               [] c.doc.tag = "Union" ->
                      \/ FitsLine(Append(rest, Cmd(c.ind, Flat, c.doc.x)), rem)
                      \/ FitsLine(Append(rest, Cmd(c.ind, c.mode, c.doc.y)), rem)

\* a fitting call made by the Union arm of fitting_ is returning
NestedReturn == pc = "ret" /\ Len(frames) > 1
\* the call that made it
Enclosing == frames[Len(frames) - 1]
\* what followed the Union when it was popped: the entries of bcmds not yet
\* taken, under the entries still pending on the scratch stack
UnionContinuation ==
    SubSeq(bcmds, 1, Enclosing.bidx) \o SubSeq(fcmds, 1, Top(frames).start)

\* C11: when the fit probe pops Union(x, y), the nested probe of x is seeded
\* with (ind, Flat, x) and the current rem, and its answer is whether x followed
\* by the continuation the Union had (the commands pending on the scratch
\* stack, then the todo commands not yet consumed) fits in rem; the enclosing
\* probe succeeds if it does and otherwise goes on with y pushed in the mode of
\* the Union command.
C11_UnionProbe ==
    [][/\ AtFit({"Union"}) =>
              /\ pc' = "fit" /\ Len(frames') = Len(frames) + 1
              /\ Top(frames').next = Cmd(Top(fcmds).ind, Flat, Top(fcmds).doc.x)
              /\ Top(frames').rem = Top(frames).rem
              /\ Top(fcmds') = Top(frames').next
       /\ (NestedReturn =>
              ret = FitsLine(Append(UnionContinuation, Top(frames).next), Enclosing.rem))'
       /\ (NestedReturn /\ ret) => (pc' = "ret" /\ ret')
       /\ (NestedReturn /\ ~ret) =>
              /\ pc' = "fit" /\ Len(frames') = Len(frames) - 1
              /\ Top(fcmds') = Enclosing.pend]_vars

(***************************************************************************)
(* What a fitting call leaves behind.                                      *)
(***************************************************************************)
\* a fitting call is running or returning
InProbe == pc \in {"fit", "ret"} /\ frames # <<>>
\* the first n entries of the scratch stack
Below(stack, n) == SubSeq(stack, 1, n)
\* the document whose probe leaves entries on the scratch stack when the left
\* side of its Union does not fit
C12_Doc ==
    Group(AppendDoc(Union(AppendDoc(A1, AppendDoc(Space, A1)),
                          AppendDoc(A1, AppendDoc(Newline, A1))),
                    AppendDoc(Space, A1)))

\* C12: every call of the fit probe, from best or nested through a Union,
\* starts with the scratch stack at the length it records, never pops below
\* that length nor changes an entry below it, and returns, true or false, with
\* the scratch stack cut back to exactly that length (the caller of a nested
\* call that failed then pushes y); while calls are active the todo stack,
\* pos, current_indentation and the sink's output do not change.
C12_ProbeFrame ==
    [][/\ (pc = "best" /\ pc' = "fit") =>
              (fcmds = <<>> /\ frames'[1].start = 0 /\ Len(fcmds') = 1)
       /\ AtFit({"Union"}) =>
              /\ Top(frames').start = Len(fcmds) - 1
              /\ Len(fcmds') = Top(frames').start + 1
              /\ Top(frames').start >= Top(frames).start
       /\ InProbe =>
              /\ Len(fcmds) >= Top(frames).start
              /\ Below(fcmds', Top(frames).start) = Below(fcmds, Top(frames).start)
              /\ pos' = pos /\ current_indentation' = current_indentation
              /\ out' = out /\ wlog' = wlog
              /\ InProbe' => bcmds' = bcmds
       /\ NestedReturn =>
              /\ frames' = Pop(frames) \/ frames' = SetTop(Pop(frames), [Enclosing EXCEPT !.pend = NoCmd])
              /\ fcmds' = Below(fcmds, Top(frames).start)
                              \o (IF ret THEN <<>> ELSE <<Enclosing.pend>>)
       /\ (pc = "ret" /\ Len(frames) = 1) =>
              /\ pc' = "best" /\ frames' = <<>>
              /\ fcmds' = Below(fcmds, Top(frames).start) /\ fcmds' = <<>>
              /\ Pop(bcmds') = bcmds]_vars

\* the nested probe of the left side of the Union failed at width 1 with an
\* entry left above its entry length; the scratch stack is back to the pending
\* (space . a) and the caller has pushed the right side
C12_Witness ==
    /\ doc = C12_Doc /\ width = 1
    /\ pc = "fit" /\ Len(frames) = 1 /\ Top(frames).pend = NoCmd
    /\ fcmds = <<Cmd(0, Flat, AppendDoc(Space, A1)),
                 Cmd(0, Flat, AppendDoc(A1, AppendDoc(Newline, A1)))>>

(***************************************************************************)
(* doc.rs write_spaces and write_newline, called on a sink that may accept *)
(* fewer bytes than it is asked to write.                                  *)
(***************************************************************************)
\* the sink's answers to at most this many calls are chosen; it accepts
\* everything after them
MaxShortWrites == 3

\* numbers of spaces asked for: around zero and around multiples of the
\* buffer of spaces
SpaceCounts ==
    {0, 1, 2, SPACES_LEN - 1, SPACES_LEN, SPACES_LEN + 1,
     2 * SPACES_LEN - 1, 2 * SPACES_LEN, 2 * SPACES_LEN + 1}
\* an error, an error of kind Interrupted, or the most bytes the writer
\* accepts in the call
SinkResponses == {-1, -2, 0, 1, 2, SPACES_LEN - 1, SPACES_LEN}

SpaceCalls ==
    {[op |-> o, spaces |-> n, rs |-> rs] :
        o \in {"write_spaces", "write_newline"}, n \in SpaceCounts,
        rs \in SeqsUpTo(SinkResponses, MaxShortWrites)}

InitSpaces == \E c \in SpaceCalls : Idle(<<>>, c)

\* the call returned, leaving the sink as w
SinkLeft(w) ==
    /\ out' = w.out /\ wlog' = w.wlog /\ reqs' = w.req /\ rlog' = w.rlog
    /\ result' = (IF w.err THEN "Err" ELSE "Ok")
    /\ pc' = "idle"
    /\ UNCHANGED <<doc, width, faulty, pos, bcmds, fcmds, current_indentation,
                   cur, frames, ret, jobs, outs, call, built, bghost>>

CallWriteSpaces ==
    /\ pc = "build" /\ call.op = "write_spaces"
    /\ SinkLeft(write_spaces(call.spaces, Sink(<<>>, <<>>, <<>>, <<>>, call.rs, TRUE)))

CallWriteNewline ==
    /\ pc = "build" /\ call.op = "write_newline"
    /\ SinkLeft(write_newline(call.spaces, Sink(<<>>, <<>>, <<>>, <<>>, call.rs, TRUE)))

NextSpaces == CallWriteSpaces \/ CallWriteNewline

SpecSpaces == InitSpaces /\ [][NextSpaces]_vars

\* the calls of one write_spaces(n), given their results lg and the sizes rq
\* they asked for: each asks for at most min(100, n - inserted) spaces, inserted
\* being what the calls before it accepted, and is granted at most what it
\* asked for
SpacesLog(lg, rq, n) ==
    /\ Len(rq) = Len(lg)
    /\ \A i \in 1..Len(lg) :
          /\ rq[i] <= Min(SPACES_LEN, n - Accepted(SubSeq(lg, 1, i - 1)))
          /\ lg[i] <= rq[i]
    /\ Accepted(lg) <= n

\* the sizes the calls made on the sink adapter were given
Requests(rl) == [i \in 1..Len(rl) |-> rl[i].req]

\* C13: for every n and every sequence of short-write counts, write_spaces(n)
\* asks for at most min(100, n - inserted) spaces per call, the sink never
\* accepts more than n in total, and the call returns Ok exactly when the sink
\* has accepted n spaces; write_newline(n) writes one line feed and then those
\* n spaces.
C13_WriteSpaces ==
    /\ (pc = "idle" /\ call.op = "write_spaces") =>
          /\ \A i \in 1..Len(rlog) : ~rlog[i].all
          /\ wlog = Results(rlog) /\ reqs = Requests(rlog)
          /\ SpacesLog(wlog, reqs, call.spaces)
          /\ out = Spaces(Accepted(wlog))
          /\ result = "Ok" <=> Accepted(wlog) = call.spaces
    /\ (pc = "idle" /\ call.op = "write_newline") =>
          /\ rlog # <<>> /\ rlog[1].all /\ rlog[1].req = 1
          /\ \A i \in 2..Len(rlog) : ~rlog[i].all
          /\ IF rlog[1].res < 0
             THEN result = "Err" /\ Len(rlog) = 1 /\ out = <<>>
             ELSE /\ rlog[1].res = 1
                  /\ SpacesLog(Tail(Results(rlog)), Tail(Requests(rlog)), call.spaces)
                  /\ out = <<LF>> \o Spaces(Accepted(Tail(Results(rlog))))
                  /\ result = "Ok" <=> Accepted(Tail(Results(rlog))) = call.spaces

\* 201 spaces through a sink that accepts nothing, then 99, then 1, then all
C13_Witness ==
    /\ pc = "idle" /\ call.op = "write_spaces" /\ call.spaces = 2 * SPACES_LEN + 1
    /\ call.rs = <<0, SPACES_LEN - 1, 1>>
    /\ result = "Ok"
    /\ wlog = <<0, SPACES_LEN - 1, 1, SPACES_LEN, 1>>
    /\ reqs = <<SPACES_LEN, SPACES_LEN, SPACES_LEN, SPACES_LEN, 1>>
    /\ out = Spaces(2 * SPACES_LEN + 1)

(***************************************************************************)
(* One document rendered at two widths.                                    *)
(***************************************************************************)
WidthDocs == Docs2 \cup {Group(d) : d \in Wrapped1} \cup DeepDocs

\* the same document into a String at a narrower and at a wider width
InitWidths ==
    \E d \in WidthDocs : \E w1 \in 0..MaxWidth : \E w2 \in (w1 + 1)..MaxWidth :
        Idle(<<Job(d, w1, FALSE), Job(d, w2, FALSE)>>, NoCall)

SpecWidths == InitWidths /\ [][Next]_vars

RECURSIVE UnionFree(_)
UnionFree(d) ==
    CASE d.tag = "Union" -> FALSE
      [] d.tag = "Append" -> UnionFree(d.l) /\ UnionFree(d.r)
      [] d.tag \in {"Group", "Nest", "Block"} -> UnionFree(d.d)
      [] OTHER -> TRUE

\* the Text, Space and Newline leaves of a document, left to right
RECURSIVE LeafSeq(_)
LeafSeq(d) ==
    CASE d.tag \in {"Text", "Space", "Newline"} -> <<d>>
      [] d.tag = "Append" -> LeafSeq(d.l) \o LeafSeq(d.r)
      [] d.tag \in {"Group", "Nest", "Block"} -> LeafSeq(d.d)
      [] d.tag = "Union" -> LeafSeq(d.x)
      [] OTHER -> <<>>

\* o[i..] is a line feed followed by k spaces
IsBreak(o, i, k) ==
    /\ i + k <= Len(o) /\ o[i] = LF
    /\ \A n \in 1..k : o[i + n] = SP

\* o[i..] is the leaves from the j-th on, in order: every Text its payload,
\* every Space one space or a line feed and an indent, every Newline a line
\* feed and an indent
RECURSIVE MatchFrom(_, _, _, _)
MatchFrom(o, i, leaves, j) ==
    IF j > Len(leaves) THEN i = Len(o) + 1
    ELSE LET d == leaves[j]
             broken == \E k \in 0..(Len(o) - i) :
                          IsBreak(o, i, k) /\ MatchFrom(o, i + 1 + k, leaves, j + 1)
         IN  CASE d.tag = "Text" ->
                      /\ i + Len(d.s) - 1 <= Len(o)
                      /\ SubSeq(o, i, i + Len(d.s) - 1) = d.s
                      /\ MatchFrom(o, i + Len(d.s), leaves, j + 1)
               [] d.tag = "Space" ->
                      \/ i <= Len(o) /\ o[i] = SP /\ MatchFrom(o, i + 1, leaves, j + 1)
                      \/ broken
               [] d.tag = "Newline" -> broken

\* o with every line feed and its indent read as one space is the flat line
\* of d
SameTokens(o, d) == MatchFrom(o, 1, LeafSeq(d), 1)

\* C14: for a Union-free document, at every width, the output is the Text
\* payloads once each in the order of the leaves, with the Spaces and Newlines
\* in their places between them, every Space one space or a line feed with its
\* indent and every Newline a line feed with its indent; two renders of the
\* document at different widths are therefore equal once every line feed with
\* its indent is replaced by one space.
C14_WidthOnlyBreaks ==
    (Done /\ Len(outs) = 2 /\ UnionFree(doc)) =>
        /\ outs[1].result = "Ok" /\ outs[2].result = "Ok"
        /\ SameTokens(outs[1].out, doc)
        /\ SameTokens(outs[2].out, doc)

\* both groups broken at the narrower width, only the outer one at the wider
C14_Witness ==
    /\ Done /\ Len(outs) = 2 /\ doc = C1_Doc /\ UnionFree(doc)
    /\ outs[1].out = <<"a", LF, SP, SP, SP, "a", LF, SP, "a">>
    /\ outs[2].out = <<"a", SP, "a", LF, SP, "a">>
    /\ SameTokens(outs[1].out, doc) /\ SameTokens(outs[2].out, doc)

====
